---- MODULE Spec2Model ----
(***************************************************************************)
(* The four-stage document pipeline of aws-bedrock-usage:                  *)
(*   lambda-layer-1/lambda_function.py   Ingestion                         *)
(*   lambda-layer-2/analysis_lambda.py   Analysis                          *)
(*   lambda-layer-3/research_lambda.py   Research                          *)
(*   lambda-layer-4/report_lambda.py     Report Generation                 *)
(* The stages share one DynamoDB table keyed by session_id and hand over   *)
(* by asynchronous Lambda invocations.  Each handler is modelled as a      *)
(* sequence of steps, one per call that reads or writes shared state, so   *)
(* that executions of different stages interleave.  One execution of each  *)
(* stage runs at a time.                                                   *)
(*                                                                         *)
(* Faults: the model calls, the web search, the Lambda invocations, the    *)
(* object-storage reads and writes, and the two table writes the ingestion *)
(* code wraps in try/except (put_item, and the update of                   *)
(* _update_error_state) can fail.  The table reads and writes of stages    *)
(* 2-4 are taken to succeed.  Timestamp fields of the record (created_at,  *)
(* updated_at, processing_timestamp) and the descriptive extraction fields *)
(* are not part of the state.                                              *)
(***************************************************************************)
EXTENDS Integers, Sequences, FiniteSets, TLC

\* ------------------------------------------------------------------ bounds
\* The clock runs over 0..MaxTime (seconds).
MaxTime == 1
\* External events (notified objects, direct invocations, repeated deliveries).
MaxEvents == 2
\* Longest research_questions list the analysis model returns.
MaxQuestions == 2
\* Most records in one notification event.
MaxBatch == 2
\* Longest file handed to extract_text_content (besides the one long text).
MaxFileLen == 2

\* ------------------------------------------------------- program constants
\* MAX_CONTENT_SIZE is read from the environment; this deployment sets 3.
MAX_CONTENT_SIZE == 3
\* hexdigest()[:8] keeps a bounded digest; the digest space of the model.
HashSpace == 4
\* str(int(time.time()))[-6:] keeps the time modulo a power of ten.
TimestampModulus == 4
\* len(full_text.strip()) < 10: the shortest text taken as extracted.
MinExtractedLength == 10

Absent == "_absent_"

\* --------------------------------------------------------- data: documents
\* Bytes are small integers: 1..8 are ASCII characters, 9 is a byte that is
\* no valid UTF-8 on its own but is a Latin-1 character.
\* A key is its list of dot-separated parts.
Objects ==
  { [bucket |-> "b1", key |-> <<"a", "txt">>, bytes |-> <<1, 2>>],
    [bucket |-> "b1", key |-> <<"a", "md">>,  bytes |-> <<1, 2>>],
    [bucket |-> "b1", key |-> <<"e", "txt">>, bytes |-> <<>>],
    [bucket |-> "b1", key |-> <<"l", "csv">>, bytes |-> <<1, 1, 1, 1>>],
    [bucket |-> "b1", key |-> <<"m", "txt">>, bytes |-> <<1, 1, 1>>],
    [bucket |-> "b1", key |-> <<"p", "png">>, bytes |-> <<1>>] }

Last(s) == s[Len(s)]

\* a slice that keeps everything
Take_KeepsAll(s, n) == s

Take(s, n) == IF Len(s) > n THEN SubSeq(s, 1, n) ELSE s

RECURSIVE SumSeq(_)
SumSeq(s) == IF s = <<>> THEN 0 ELSE s[1] + SumSeq(Tail(s))

Range(s) == { s[i] : i \in 1..Len(s) }

\* an extension helper that finds no extension
GetFileExtension_Empty(key) == ""

\* _get_file_extension: '.' + filename.split('.')[-1] if '.' in filename else ''
GetFileExtension(key) == IF Len(key) > 1 THEN Last(key) ELSE ""

\* key.lower().endswith(ext) for the seven document extensions
SupportedKey(key) ==
  Len(key) > 1 /\ Last(key) \in {"pdf", "txt", "docx", "doc", "md", "json", "csv"}

\* bytes.decode('utf-8'): fails on an invalid byte
Utf8Decodes(bytes) == \A i \in 1..Len(bytes) : bytes[i] # 9

\* ------------------------------------------------------ text extraction
\* Text is a sequence of characters.  0 stands for the six characters
\* 'ERROR:', 1 for a letter, 2 for a digit; 9 is the invalid byte above.
\* The fixed messages of the code are one character each (11..24), after
\* the 'ERROR:' prefix where the message has it; 30 is a page header (15
\* characters).
ERROR_PREFIX == << 0 >>

StartsWithError(content) == content # <<>> /\ content[1] = 0

\* len(text), with no whitespace in the alphabet: len(text.strip()) as well
RECURSIVE CharLen(_)
CharLen(text) ==
  IF text = <<>> THEN 0
  ELSE (IF text[1] = 0 THEN 6 ELSE IF text[1] = 30 THEN 15 ELSE 1) + CharLen(Tail(text))

\* "ERROR: PDF processing not available - PyPDF2 library not installed"
PdfLibraryMissing == ERROR_PREFIX \o << 11 >>
\* "ERROR: Word document processing not available - python-docx library not installed"
DocxLibraryMissing == ERROR_PREFIX \o << 12 >>
\* a .doc message without the 'ERROR:' prefix
DocNotSupported_NoPrefix == << 13 >>
\* "ERROR: .doc files not supported, please convert to .docx"
DocNotSupported == ERROR_PREFIX \o << 13 >>
\* f"ERROR: Invalid JSON file - {str(e)}"
InvalidJson == ERROR_PREFIX \o << 14 >>
\* f"ERROR: Failed to process file - {str(e)}"
FailedToProcess == ERROR_PREFIX \o << 15 >>
\* "WARNING: Extracted text is very short - PDF might be image-based or protected"
PdfShortWarning == << 21 >>
\* "WARNING: Extracted text is very short - document might be empty"
DocxShortWarning == << 22 >>
\* f"Error processing PDF: {str(e)}"
PdfProcessingError == << 23 >>
\* f"Error processing Word document: {str(e)}"
DocxProcessingError == << 24 >>
\* f"--- Page {page_num + 1} ---\n"
PageHeader == << 30 >>

\* PyPDF2.PdfReader / docx.Document read the file: a corrupt file (one with
\* an invalid byte) makes the parser raise; otherwise the bytes are the text
\* of the one page, or of the one paragraph
ParserReads(file_bytes) == \A i \in 1..Len(file_bytes) : file_bytes[i] # 9

\* extract_pdf_text
ExtractPdfText(pdf_bytes, PDF_SUPPORT) ==
  IF ~PDF_SUPPORT THEN [text |-> PdfLibraryMissing, branch |-> "library_missing"]
  ELSE IF ~ParserReads(pdf_bytes)
    THEN [text |-> PdfProcessingError, branch |-> "parser_raised"]
  ELSE LET full_text == IF pdf_bytes = <<>> THEN <<>> ELSE PageHeader \o pdf_bytes
       IN IF CharLen(full_text) < MinExtractedLength
            THEN [text |-> PdfShortWarning, branch |-> "short_text"]
            ELSE [text |-> full_text, branch |-> "text"]

\* extract_docx_text
ExtractDocxText(docx_bytes, DOCX_SUPPORT) ==
  IF ~DOCX_SUPPORT THEN [text |-> DocxLibraryMissing, branch |-> "library_missing"]
  ELSE IF ~ParserReads(docx_bytes)
    THEN [text |-> DocxProcessingError, branch |-> "parser_raised"]
  ELSE IF CharLen(docx_bytes) < MinExtractedLength
    THEN [text |-> DocxShortWarning, branch |-> "short_text"]
  ELSE [text |-> docx_bytes, branch |-> "text"]

\* json.loads(text) accepts a text: here, a number (one or more digits)
JsonLoads(text) == text # <<>> /\ \A i \in 1..Len(text) : text[i] = 2

\* extract_text_content, with the two import flags of the module:
\* [content, extraction_method, extraction_success, warned], and the branch
\* of the code that produced the content.
\* (latin-1 decodes every byte string, so the loop over encodings always
\* breaks; an invalid byte in a .json file makes decode raise a
\* UnicodeDecodeError, which only the outer except catches, after which
\* extraction_success keeps its initial False)
ExtractTextContentWith(bytes, key, PDF_SUPPORT, DOCX_SUPPORT) ==
  LET ext == GetFileExtension(key)
      pdf == ExtractPdfText(bytes, PDF_SUPPORT)
      docx == ExtractDocxText(bytes, DOCX_SUPPORT)
      decoded ==
        IF ext = "pdf"
          THEN [content |-> pdf.text, extraction_method |-> "PyPDF2",
                warned |-> FALSE, raised |-> FALSE, branch |-> pdf.branch]
        ELSE IF ext = "docx"
          THEN [content |-> docx.text, extraction_method |-> "python-docx",
                warned |-> FALSE, raised |-> FALSE, branch |-> docx.branch]
        ELSE IF ext = "doc"
          THEN [content |-> DocNotSupported, extraction_method |-> "unknown",
                warned |-> TRUE, raised |-> FALSE, branch |-> "doc_format"]
        ELSE IF ext \in {"txt", "md", "csv"}
          THEN [content |-> bytes,
                extraction_method |->
                  IF Utf8Decodes(bytes) THEN "text_decode_utf-8" ELSE "text_decode_latin-1",
                warned |-> FALSE, raised |-> FALSE, branch |-> "text"]
        ELSE IF ext = "json"
          THEN IF ~Utf8Decodes(bytes)
                 THEN [content |-> FailedToProcess, extraction_method |-> "unknown",
                       warned |-> TRUE, raised |-> TRUE, branch |-> "exception"]
               ELSE IF ~JsonLoads(bytes)
                 THEN [content |-> InvalidJson, extraction_method |-> "unknown",
                       warned |-> FALSE, raised |-> FALSE, branch |-> "invalid_json"]
               ELSE [content |-> bytes, extraction_method |-> "json_parse",
                     warned |-> FALSE, raised |-> FALSE, branch |-> "text"]
        ELSE [content |-> SelectSeq(bytes, LAMBDA b : b # 9),
              extraction_method |->
                IF Utf8Decodes(bytes) THEN "generic_text" ELSE "generic_text_fallback",
              warned |-> TRUE, raised |-> FALSE, branch |-> "text"]
  IN [content |-> decoded.content,
      extraction_method |-> decoded.extraction_method,
      warned |-> decoded.warned,
      branch |-> decoded.branch,
      \* if content and not content.startswith('ERROR:')
      extraction_success |->
        (~decoded.raised /\ decoded.content # <<>> /\ ~StartsWithError(decoded.content))]

\* extract_text_content in the deployed function, whose layer has both
\* libraries
ExtractTextContent(bytes, key) == ExtractTextContentWith(bytes, key, TRUE, TRUE)

\* hashlib.md5(content).hexdigest()[:8]
ContentHash(content) == SumSeq(content) % HashSpace

\* _generate_session_id: f"{base_name}_{content_hash}_{timestamp}"
GenerateSessionId(key, content, time) ==
  << key[1], ContentHash(content), time % TimestampModulus >>

\* A payload that carries no session_id.
NoSessionId == << "", 0, 0 >>
\* A session id no ingestion produces.
GhostId == << "ghost", 0, 0 >>

SessionIds ==
  { GenerateSessionId(o.key, ExtractTextContent(o.bytes, o.key).content, t) :
      o \in Objects, t \in 0..MaxTime } \cup {GhostId}

\* ------------------------------------------------------ data: model output
Questions == {"q1", "q2"}

RECURSIVE SeqsUpTo(_, _)
SeqsUpTo(S, n) ==
  IF n = 0 THEN { <<>> }
  ELSE LET shorter == SeqsUpTo(S, n - 1)
       IN shorter \cup { Append(s, x) : s \in { t \in shorter : Len(t) = n - 1 }, x \in S }

\* The JSON objects the analysis model may return: research_questions is
\* missing (has_questions = FALSE) or a list (empty, or with repeated
\* questions, included); the questions being interchangeable, a list starts
\* with q1.
QuestionLists == { q \in SeqsUpTo(Questions, MaxQuestions) : q # <<>> => q[1] = "q1" }

AnalysisResults ==
  { [topics |-> "topics", has_questions |-> TRUE, research_questions |-> q] :
      q \in QuestionLists }
  \cup { [topics |-> "topics", has_questions |-> FALSE, research_questions |-> <<>>] }

\* findings[question] when the search or the model call raised
ErrorFinding ==
  [summary |-> "Error processing question", reliability_score |-> "Low",
   sources |-> "none", key_findings |-> "none"]

\* invoke_bedrock_model's fallback when the model's text is not JSON
ParseFallbackFinding ==
  [summary |-> "Error parsing model response", reliability_score |-> "Low",
   sources |-> "none", key_findings |-> "none"]

\* The JSON values json.loads(content) may yield for a question: the object
\* the prompt asks for, and an object with another score and without the
\* two lists.
ModelFindings ==
  { [summary |-> "text", reliability_score |-> "High",
      sources |-> "some", key_findings |-> "some"] }
  \cup { [summary |-> "text", reliability_score |-> "Unsure",
          sources |-> Absent, key_findings |-> Absent] }

ReportTexts == {"", "report"}

\* ------------------------------------------------------------- data: table
SuccessStages ==
  <<"document_processed", "analysis_complete", "research_complete", "report_generated">>
ErrorStages == {"error", "error_document_processing"}

\* An item of the table: attrs names the attributes the item has; an
\* attribute that is not in attrs holds the default of its type.
NoFindings == [q \in {} |-> ErrorFinding]

NoAnalysis == [topics |-> "", has_questions |-> FALSE, research_questions |-> <<>>]

NoItem ==
  [attrs |-> {}, workflow_stage |-> Absent, document_content |-> <<>>,
   content_truncated |-> FALSE, full_content_length |-> 0,
   full_content_s3_location |-> <<>>, extraction_success |-> FALSE,
   s3_bucket |-> Absent, s3_key |-> <<>>,
   analysis_result |-> NoAnalysis, research_findings |-> NoFindings,
   final_report |-> Absent, error_message |-> Absent]

\* 'Item' in response
Present(item) == item.attrs # {}

Has(item, attr) == attr \in item.attrs

\* table.get_item(Key={'session_id': session_id}): the item, or no 'Item'
GetItem(t, session_id) == IF session_id \in DOMAIN t THEN t[session_id] ELSE NoItem

\* ------------------------------------------------------------------- state
VARIABLES
  now,        \* time.time(), in seconds
  table,      \* the DynamoDB table agent-workflow-state: session id -> item
  pending,    \* asynchronous invocations accepted by Lambda, not yet delivered
  reports,    \* objects written to the report bucket
  budget,     \* external events still allowed
  ingest,     \* the running (or last) execution of the ingestion handler
  analysis,   \* ... of the analysis handler
  research,   \* ... of the research handler
  report,     \* ... of the report handler
  extraction_call, \* a call of extract_text_content: its arguments and its result
  crawl_call       \* a call of the tool crawl_website: its requests and its result

vars ==
  << now, table, pending, reports, budget, ingest, analysis, research, report,
     extraction_call, crawl_call >>

\* An execution has stopped: it returned ("done") or an exception escaped
\* the handler ("crashed"); "idle" is the state before the first execution.
Stopped(exec) == exec.pc \in {"idle", "done", "crashed"}

\* What is left of an execution once it has stopped: how it stopped and the
\* result it returned.
IdleIngest ==
  [pc |-> "idle", mode |-> "none", records |-> <<>>, idx |-> 0,
   session_id |-> NoSessionId, statusCode |-> 0, payload |-> FALSE]

IdleAnalysis ==
  [pc |-> "idle", session_id |-> NoSessionId,
   analysis_result |-> NoAnalysis, statusCode |-> 0, body |-> ""]

IdleResearch ==
  [pc |-> "idle", session_id |-> NoSessionId, research_questions |-> <<>>,
   findings |-> NoFindings, failed |-> {}, statusCode |-> 0, body |-> ""]

IdleReport ==
  [pc |-> "idle", session_id |-> NoSessionId, report_text |-> "", statusCode |-> 0]

\* no call of extract_text_content is under observation
NoExtraction ==
  [pc |-> "none", PDF_SUPPORT |-> TRUE, DOCX_SUPPORT |-> TRUE,
   file_bytes |-> <<>>, filename |-> <<>>,
   result |-> [content |-> <<>>, extraction_method |-> "unknown", warned |-> FALSE,
               branch |-> "", extraction_success |-> FALSE]]

\* A value parsed from a response body (kind "object" is a mapping, with its
\* keys; "array" any other JSON value; "invalid" a body that is not JSON).
JsonValue(kind, keys, id, error) == [kind |-> kind, keys |-> keys, id |-> id, error |-> error]

NoJson == JsonValue("none", {}, "", "")

\* what requests.post / requests.get gave: an exception, or a response
NoResponse == [raised |-> FALSE, status_code |-> 0, body |-> NoJson]

\* no call of crawl_website is under observation
NoCrawl ==
  [pc |-> "none", url |-> "", query |-> "", posts |-> 0, gets |-> 0,
   authorization |-> <<>>, job |-> "",
   submission |-> NoResponse, retrieval |-> NoResponse, result |-> NoJson]

Init ==
  /\ now = 0
  /\ table = [s \in SessionIds |-> NoItem]
  /\ pending = {}
  /\ reports = {}
  /\ budget = MaxEvents
  /\ ingest = IdleIngest
  /\ analysis = IdleAnalysis
  /\ research = IdleResearch
  /\ report = IdleReport
  /\ extraction_call = NoExtraction
  /\ crawl_call = NoCrawl

\* time passes (between the executions of the handlers: each execution reads
\* the clock at one point, for its session id or its report key)
Tick ==
  /\ now < MaxTime
  /\ Stopped(ingest) /\ Stopped(analysis) /\ Stopped(research) /\ Stopped(report)
  /\ now' = now + 1
  /\ UNCHANGED << crawl_call, extraction_call, table, pending, reports, budget, ingest, analysis, research, report >>

\* ---------------------------------------------- the table's write operations
\* table.put_item(Item=item): the item replaces whatever the key held
PutItem(t, session_id, item) == [t EXCEPT ![session_id] = item]

\* an error write that puts a new item in place of the record
SetError_ReplacesItem(t, session_id, stage) ==
  [t EXCEPT ![session_id] =
     [NoItem EXCEPT !.attrs = {"session_id", "workflow_stage", "error_message"},
                    !.workflow_stage = stage,
                    !.error_message = "error"]]

\* table.update_item with "SET workflow_stage=..., error_message=..." as
\* written by update_workflow_error (stage "error") and _update_error_state
\* (stage "error_document_processing"); update_item creates a missing item
SetError(t, session_id, stage) ==
  [t EXCEPT ![session_id] =
     [@ EXCEPT !.attrs = @ \cup {"session_id", "workflow_stage", "error_message"},
               !.workflow_stage = stage,
               !.error_message = "error"]]

\* ------------------------------------------------------------- ingestion
ObjectRefs == { [bucket |-> o.bucket, key |-> o.key] : o \in Objects }

\* s3_client.get_object(Bucket, Key)['Body'].read()
GetObject(ref) == (CHOOSE o \in Objects : o.bucket = ref.bucket /\ o.key = ref.key).bytes

\* An entry of event['Records']: an object-created notification of S3
S3Record(ref) == [eventSource |-> "aws:s3", bucket |-> ref.bucket, key |-> ref.key]
\* ... an entry of another event source
ForeignRecord == [eventSource |-> "aws:sns", bucket |-> Absent, key |-> <<>>]
\* ... an entry of S3 without the bucket name or the object key
MalformedRecord == [eventSource |-> "aws:s3", bucket |-> Absent, key |-> <<>>]

\* record.get('eventSource') == 'aws:s3'
IsS3Record(record) == record.eventSource = "aws:s3"
\* record['s3']['bucket']['name'] and record['s3']['object']['key'] exist
HasBucketAndKey(record) == record.bucket # Absent
\* the record gets past the extension filter
SupportedRecord(record) ==
  IsS3Record(record) /\ HasBucketAndKey(record) /\ SupportedKey(record.key)

\* the record the handler is working on, and what extraction makes of it
CurrentRecord == ingest.records[ingest.idx]

CurrentExtraction == ExtractTextContent(GetObject(CurrentRecord), CurrentRecord.key)

\* store_document_data: the item it puts
DocumentItem(extraction, bucket, key) ==
  LET content == extraction.content
      content_truncated == Len(content) > MAX_CONTENT_SIZE
  IN [NoItem EXCEPT
        !.attrs = {"session_id", "workflow_stage", "document_content", "content_truncated",
                   "full_content_length", "extraction_success", "s3_bucket", "s3_key"}
                  \cup (IF content_truncated THEN {"full_content_s3_location"} ELSE {}),
        !.workflow_stage = "document_processed",
        !.document_content = Take(content, MAX_CONTENT_SIZE),
        !.content_truncated = content_truncated,
        !.full_content_length = Len(content),
        !.full_content_s3_location = IF content_truncated THEN << bucket, key >> ELSE <<>>,
        !.extraction_success = extraction.extraction_success,
        !.s3_bucket = bucket,
        !.s3_key = key]

\* the loop of the notification branch moves to the next record, or the
\* handler returns 'Document ingestion completed'
NextRecord ==
  IF ingest.idx < Len(ingest.records)
    THEN [ingest EXCEPT !.pc = "fetch", !.idx = @ + 1, !.session_id = NoSessionId]
    ELSE [IdleIngest EXCEPT !.pc = "done", !.statusCode = 200]

\* the end of one record: the next record (notification), or the result
\* payload of the direct branch
FinishRecord ==
  IF ingest.mode = "s3" THEN NextRecord
  ELSE [IdleIngest EXCEPT !.pc = "done", !.statusCode = 200, !.payload = TRUE]

IngestUnchanged == UNCHANGED << crawl_call, extraction_call, now, reports, analysis, research, report >>

\* what an event with these records takes from the budget of events
EventCost(records) == IF records = <<>> THEN 1 ELSE Len(records)

\* lambda_handler, 'Records' in event: a batch of object-created notifications
\* (with no record the loop does nothing and the handler returns
\* 'Document ingestion completed')
S3Notification(records) ==
  /\ Stopped(ingest)
  /\ budget >= EventCost(records)
  /\ budget' = budget - EventCost(records)
  /\ ingest' = IF records = <<>>
                  THEN [IdleIngest EXCEPT !.pc = "done", !.statusCode = 200]
                  ELSE [IdleIngest EXCEPT !.pc = "fetch", !.mode = "s3",
                                          !.records = records, !.idx = 1]
  /\ UNCHANGED << table, pending >>
  /\ IngestUnchanged

\* lambda_handler, 'bucket' in event and 'key' in event
DirectInvocation(ref) ==
  /\ Stopped(ingest)
  /\ budget > 0
  /\ budget' = budget - 1
  /\ ingest' = [IdleIngest EXCEPT !.pc = "fetch", !.mode = "direct", !.records = << ref >>, !.idx = 1]
  /\ UNCHANGED << table, pending >>
  /\ IngestUnchanged

\* lambda_handler, an event with neither 'Records' nor 'bucket' and 'key':
\* 'Invalid event format'
InvalidEvent ==
  /\ Stopped(ingest)
  /\ budget > 0
  /\ budget' = budget - 1
  /\ ingest' = [IdleIngest EXCEPT !.pc = "done", !.statusCode = 400]
  /\ UNCHANGED << table, pending >>
  /\ IngestUnchanged

\* record.get('eventSource') is not 'aws:s3': the loop goes on to the next
\* record
IngestSkipForeignRecord ==
  /\ ingest.pc = "fetch"
  /\ ingest.mode = "s3"
  /\ ~IsS3Record(CurrentRecord)
  /\ ingest' = NextRecord
  /\ UNCHANGED << table, pending, budget >>
  /\ IngestUnchanged

\* record['s3']['bucket']['name'] raises KeyError outside the inner try: the
\* outer except returns 500 and the loop is left
IngestRecordMalformed ==
  /\ ingest.pc = "fetch"
  /\ ingest.mode = "s3"
  /\ IsS3Record(CurrentRecord)
  /\ ~HasBucketAndKey(CurrentRecord)
  /\ ingest' = [IdleIngest EXCEPT !.pc = "done", !.statusCode = 500]
  /\ UNCHANGED << table, pending, budget >>
  /\ IngestUnchanged

\* "Skipping unsupported file type": continue
IngestSkipUnsupported ==
  /\ ingest.pc = "fetch"
  /\ ingest.mode = "s3"
  /\ IsS3Record(CurrentRecord)
  /\ HasBucketAndKey(CurrentRecord)
  /\ ~SupportedKey(CurrentRecord.key)
  /\ ingest' = NextRecord
  /\ UNCHANGED << table, pending, budget >>
  /\ IngestUnchanged

\* get_object raises: continue (notification), or the outer except returns 500
IngestGetObjectFails ==
  /\ ingest.pc = "fetch"
  /\ ingest.mode = "s3" => SupportedRecord(CurrentRecord)
  /\ ingest' = IF ingest.mode = "s3" THEN NextRecord
                ELSE [IdleIngest EXCEPT !.pc = "done", !.statusCode = 500]
  /\ UNCHANGED << table, pending, budget >>
  /\ IngestUnchanged

\* notification branch: "Text extraction failed": continue
IngestExtractionFailed ==
  /\ ingest.pc = "fetch"
  /\ ingest.mode = "s3"
  /\ SupportedRecord(CurrentRecord)
  /\ ~CurrentExtraction.extraction_success
  /\ ingest' = NextRecord
  /\ UNCHANGED << table, pending, budget >>
  /\ IngestUnchanged

\* the object is read and its text extracted; the session id is generated
\* (the direct branch does not look at extraction_success)
IngestExtracted ==
  /\ ingest.pc = "fetch"
  /\ ingest.mode = "s3" =>
        SupportedRecord(CurrentRecord) /\ CurrentExtraction.extraction_success
  /\ ingest' = [ingest EXCEPT
                   !.pc = "store",
                   !.session_id =
                     GenerateSessionId(CurrentRecord.key, CurrentExtraction.content, now)]
  /\ UNCHANGED << table, pending, budget >>
  /\ IngestUnchanged

\* store_document_data returns True
IngestStored ==
  /\ ingest.pc = "store"
  /\ table' = PutItem(table, ingest.session_id,
                       DocumentItem(CurrentExtraction, CurrentRecord.bucket, CurrentRecord.key))
  /\ ingest' = [ingest EXCEPT !.pc = "trigger"]
  /\ UNCHANGED << pending, budget >>
  /\ IngestUnchanged

\* put_item raises, store_document_data returns False: nothing is triggered;
\* the direct branch falls through to 'Document ingestion completed'
IngestStoreFails ==
  /\ ingest.pc = "store"
  /\ ingest' = NextRecord
  /\ UNCHANGED << table, pending, budget >>
  /\ IngestUnchanged

\* DocumentProcessor.trigger_next_stage: the asynchronous invoke is accepted
IngestTriggered ==
  /\ ingest.pc = "trigger"
  /\ pending' = pending \cup { << "analysis-agent", ingest.session_id >> }
  /\ ingest' = FinishRecord
  /\ UNCHANGED << table, budget >>
  /\ IngestUnchanged

\* trigger_next_stage: invoke raises, _update_error_state is called
IngestTriggerFails ==
  /\ ingest.pc = "trigger"
  /\ ingest' = [ingest EXCEPT !.pc = "error_state"]
  /\ UNCHANGED << table, pending, budget >>
  /\ IngestUnchanged

\* _update_error_state: the update is written
IngestErrorStateWritten ==
  /\ ingest.pc = "error_state"
  /\ table' = SetError(table, ingest.session_id, "error_document_processing")
  /\ ingest' = FinishRecord
  /\ UNCHANGED << pending, budget >>
  /\ IngestUnchanged

\* _update_error_state: the update raises, which is caught and printed
IngestErrorStateFails ==
  /\ ingest.pc = "error_state"
  /\ ingest' = FinishRecord
  /\ UNCHANGED << table, pending, budget >>
  /\ IngestUnchanged

\* -------------------------------------------------------------- analysis
AnalysisUnchanged == UNCHANGED << crawl_call, extraction_call, now, reports, budget, ingest, research, report >>

\* update_workflow_error that records the message and leaves the stage
UpdateWorkflowError_KeepsStage(t, session_id) ==
  [t EXCEPT ![session_id] =
     [@ EXCEPT !.attrs = @ \cup {"session_id", "error_message"},
               !.error_message = "error"]]

\* update_workflow_error(session_id, error_message, table)
UpdateWorkflowError(t, session_id) == SetError(t, session_id, "error")

\* "SET workflow_stage=:stage, analysis_result=:result, extracted_topics=:topics"
StoreAnalysis(t, session_id, analysis_result) ==
  [t EXCEPT ![session_id] =
     [@ EXCEPT !.attrs = @ \cup {"session_id", "workflow_stage", "analysis_result",
                                 "extracted_topics"},
               !.workflow_stage = "analysis_complete",
               !.analysis_result = analysis_result]]

\* event.get('session_id') is missing: 400
AnalysisMissingSessionId ==
  /\ analysis.pc = "get"
  /\ analysis.session_id = NoSessionId
  /\ analysis' = [IdleAnalysis EXCEPT !.pc = "done", !.statusCode = 400,
                                      !.body = "Missing session_id"]
  /\ UNCHANGED << table, pending >>
  /\ AnalysisUnchanged

\* a lookup miss that marks the session as failed, which creates the item
AnalysisSessionNotFound_MarksError ==
  /\ analysis.pc = "get"
  /\ analysis.session_id # NoSessionId
  /\ ~Present(GetItem(table, analysis.session_id))
  /\ table' = SetError(table, analysis.session_id, "error")
  /\ analysis' = [IdleAnalysis EXCEPT !.pc = "done", !.statusCode = 404,
                                      !.body = "Session not found"]
  /\ UNCHANGED pending
  /\ UNCHANGED << crawl_call, extraction_call, now, reports, budget, ingest, research, report >>

\* 'Item' not in response: 404
AnalysisSessionNotFound ==
  /\ analysis.pc = "get"
  /\ analysis.session_id # NoSessionId
  /\ ~Present(GetItem(table, analysis.session_id))
  /\ analysis' = [IdleAnalysis EXCEPT !.pc = "done", !.statusCode = 404,
                                      !.body = "Session not found"]
  /\ UNCHANGED << table, pending >>
  /\ AnalysisUnchanged

\* an empty document that is marked as failed before the 400
AnalysisNoContent_MarksError ==
  /\ analysis.pc = "get"
  /\ analysis.session_id # NoSessionId
  /\ Present(GetItem(table, analysis.session_id))
  /\ GetItem(table, analysis.session_id).document_content = <<>>
  /\ table' = SetError(table, analysis.session_id, "error")
  /\ analysis' = [IdleAnalysis EXCEPT !.pc = "done", !.statusCode = 400,
                                      !.body = "No document content found"]
  /\ UNCHANGED pending
  /\ UNCHANGED << crawl_call, extraction_call, now, reports, budget, ingest, research, report >>

\* not document_content: 400
AnalysisNoContent ==
  /\ analysis.pc = "get"
  /\ analysis.session_id # NoSessionId
  /\ Present(GetItem(table, analysis.session_id))
  /\ GetItem(table, analysis.session_id).document_content = <<>>
  /\ analysis' = [IdleAnalysis EXCEPT !.pc = "done", !.statusCode = 400,
                                      !.body = "No document content found"]
  /\ UNCHANGED << table, pending >>
  /\ AnalysisUnchanged

\* the item has content, which goes into the prompt
AnalysisHasContent ==
  /\ analysis.pc = "get"
  /\ analysis.session_id # NoSessionId
  /\ Present(GetItem(table, analysis.session_id))
  /\ GetItem(table, analysis.session_id).document_content # <<>>

\* invoke_bedrock_model raises, or json.loads(response_text) raises
AnalysisModelFails ==
  /\ AnalysisHasContent
  /\ analysis' = [analysis EXCEPT !.pc = "model_failed"]
  /\ UNCHANGED << table, pending >>
  /\ AnalysisUnchanged

\* the model's text is JSON but no object: analysis_result.get raises
\* outside the try block while the update's arguments are built
AnalysisModelNotAnObject ==
  /\ AnalysisHasContent
  /\ analysis' = [IdleAnalysis EXCEPT !.pc = "crashed"]
  /\ UNCHANGED << table, pending >>
  /\ AnalysisUnchanged

\* the model's text parses to an object
AnalysisModelAnswers(analysis_result) ==
  /\ AnalysisHasContent
  /\ analysis' = [analysis EXCEPT !.pc = "store", !.analysis_result = analysis_result]
  /\ UNCHANGED << table, pending >>
  /\ AnalysisUnchanged

\* except: update_workflow_error, return 500
AnalysisRecordsModelFailure ==
  /\ analysis.pc = "model_failed"
  /\ table' = UpdateWorkflowError(table, analysis.session_id)
  /\ analysis' = [IdleAnalysis EXCEPT !.pc = "done", !.statusCode = 500,
                                      !.body = "error"]
  /\ UNCHANGED pending
  /\ AnalysisUnchanged

\* table.update_item: the analysis is stored
AnalysisStored ==
  /\ analysis.pc = "store"
  /\ table' = StoreAnalysis(table, analysis.session_id, analysis.analysis_result)
  /\ analysis' = [analysis EXCEPT !.pc = "trigger", !.analysis_result = NoAnalysis]
  /\ UNCHANGED pending
  /\ AnalysisUnchanged

\* lambda_client.invoke is accepted; return 200
AnalysisTriggered ==
  /\ analysis.pc = "trigger"
  /\ pending' = pending \cup { << "research-agent", analysis.session_id >> }
  /\ analysis' = [IdleAnalysis EXCEPT !.pc = "done", !.statusCode = 200,
                                      !.body = "Analysis complete"]
  /\ UNCHANGED table
  /\ AnalysisUnchanged

\* lambda_client.invoke raises
AnalysisTriggerFails ==
  /\ analysis.pc = "trigger"
  /\ analysis' = [analysis EXCEPT !.pc = "trigger_failed"]
  /\ UNCHANGED << table, pending >>
  /\ AnalysisUnchanged

\* a trigger failure that fails the handler
AnalysisRecordsTriggerFailure_Returns500 ==
  /\ analysis.pc = "trigger_failed"
  /\ table' = SetError(table, analysis.session_id, "error")
  /\ analysis' = [IdleAnalysis EXCEPT !.pc = "done", !.statusCode = 500, !.body = "error"]
  /\ UNCHANGED pending
  /\ UNCHANGED << crawl_call, extraction_call, now, reports, budget, ingest, research, report >>

\* except: update_workflow_error; the handler goes on to return 200
AnalysisRecordsTriggerFailure ==
  /\ analysis.pc = "trigger_failed"
  /\ table' = UpdateWorkflowError(table, analysis.session_id)
  /\ analysis' = [IdleAnalysis EXCEPT !.pc = "done", !.statusCode = 200,
                                      !.body = "Analysis complete"]
  /\ UNCHANGED pending
  /\ AnalysisUnchanged

\* -------------------------------------------------------------- research
ResearchUnchanged == UNCHANGED << crawl_call, extraction_call, now, reports, budget, ingest, analysis, report >>

\* item.get('analysis_result', {}).get('research_questions', [])
ResearchQuestionsOf(item) == item.analysis_result.research_questions

\* an assignment that records nothing for a question that raised
SetFinding_DropsFailed(findings, question, value) ==
  IF value = ErrorFinding THEN findings
  ELSE [q \in DOMAIN findings \cup {question} |-> IF q = question THEN value ELSE findings[q]]

\* findings[question] = value (a dict: a repeated question keeps one entry)
SetFinding(findings, question, value) ==
  [q \in DOMAIN findings \cup {question} |-> IF q = question THEN value ELSE findings[q]]

\* "SET workflow_stage = :stage, research_findings = :findings"
StoreFindings(t, session_id, findings) ==
  [t EXCEPT ![session_id] =
     [@ EXCEPT !.attrs = @ \cup {"session_id", "workflow_stage", "research_findings"},
               !.workflow_stage = "research_complete",
               !.research_findings = findings]]

\* event['session_id'] or response['Item'] raises KeyError
ResearchNoItem ==
  /\ research.pc = "get"
  /\ ~Present(GetItem(table, research.session_id))
  /\ research' = [IdleResearch EXCEPT !.pc = "crashed"]
  /\ UNCHANGED << table, pending >>
  /\ ResearchUnchanged

\* a handler without the guard: it stores an empty mapping and goes on
ResearchNoQuestions_GoesOn ==
  /\ research.pc = "get"
  /\ research.session_id # NoSessionId
  /\ Present(GetItem(table, research.session_id))
  /\ GetItem(table, research.session_id).analysis_result.research_questions = <<>>
  /\ table' = [table EXCEPT ![research.session_id] =
                  [@ EXCEPT !.attrs = @ \cup {"workflow_stage", "research_findings"},
                            !.workflow_stage = "research_complete"]]
  /\ research' = [research EXCEPT !.pc = "trigger"]
  /\ UNCHANGED pending
  /\ UNCHANGED << crawl_call, extraction_call, now, reports, budget, ingest, analysis, report >>

\* not research_questions: 400
ResearchNoQuestions ==
  /\ research.pc = "get"
  /\ research.session_id # NoSessionId
  /\ Present(GetItem(table, research.session_id))
  /\ ResearchQuestionsOf(GetItem(table, research.session_id)) = <<>>
  /\ research' = [IdleResearch EXCEPT !.pc = "done", !.statusCode = 400,
                                      !.body = "No research questions found"]
  /\ UNCHANGED << table, pending >>
  /\ ResearchUnchanged

\* What happens to one question in the loop: the search or the model call
\* raises ("raised"), the model's text is no JSON ("not_json"), or the text
\* parses to a value of ModelFindings.
QuestionOutcomes ==
  { [kind |-> "raised", value |-> ErrorFinding],
    [kind |-> "not_json", value |-> ParseFallbackFinding] }
  \cup { [kind |-> "json", value |-> v] : v \in ModelFindings }

\* the loop over research_questions from turn i on, given each turn's outcome
RECURSIVE FindingsLoop(_, _, _, _)
FindingsLoop(findings, research_questions, outcomes, i) ==
  IF i > Len(research_questions) THEN findings
  ELSE FindingsLoop(SetFinding(findings, research_questions[i], outcomes[i].value),
                    research_questions, outcomes, i + 1)

\* the turns of the loop whose search or model call raised
FailedTurns(research_questions, outcomes) ==
  { i \in 1..Len(research_questions) : outcomes[i].kind = "raised" }

\* the questions are read and the loop runs over them
ResearchLoop(outcomes) ==
  LET research_questions == ResearchQuestionsOf(GetItem(table, research.session_id))
  IN /\ research.pc = "get"
     /\ research.session_id # NoSessionId
     /\ Present(GetItem(table, research.session_id))
     /\ research_questions # <<>>
     /\ Len(outcomes) = Len(research_questions)
     /\ research' = [research EXCEPT
                        !.pc = "store",
                        !.research_questions = research_questions,
                        !.findings = FindingsLoop(NoFindings, research_questions, outcomes, 1),
                        !.failed = FailedTurns(research_questions, outcomes)]
     /\ UNCHANGED << table, pending >>
     /\ ResearchUnchanged

\* table.update_item: the findings are stored
ResearchStored ==
  /\ research.pc = "store"
  /\ table' = StoreFindings(table, research.session_id, research.findings)
  /\ research' = [research EXCEPT !.pc = "trigger"]
  /\ UNCHANGED pending
  /\ ResearchUnchanged

\* a trigger that reports success without invoking anything
ResearchTriggered_InvokesNothing ==
  /\ research.pc = "trigger"
  /\ research' = [IdleResearch EXCEPT !.pc = "done", !.statusCode = 200,
                                      !.body = "Successfully triggered"]
  /\ UNCHANGED << table, pending >>
  /\ UNCHANGED << crawl_call, extraction_call, now, reports, budget, ingest, analysis, report >>

\* trigger_next_stage: the invoke is accepted, 200
ResearchTriggered ==
  /\ research.pc = "trigger"
  /\ pending' = pending \cup { << "report-generation-agent", research.session_id >> }
  /\ research' = [IdleResearch EXCEPT !.pc = "done", !.statusCode = 200,
                                      !.body = "Successfully triggered"]
  /\ UNCHANGED table
  /\ ResearchUnchanged

\* trigger_next_stage: the invoke raises, 500
ResearchTriggerFails ==
  /\ research.pc = "trigger"
  /\ research' = [IdleResearch EXCEPT !.pc = "done", !.statusCode = 500,
                                      !.body = "Failed to trigger"]
  /\ UNCHANGED << table, pending >>
  /\ ResearchUnchanged

\* ---------------------------------------------------------------- report
ReportUnchanged == UNCHANGED << crawl_call, extraction_call, budget, ingest, analysis, research >>

\* a report key that leaves the session id out
ReportKey_NoSession(session_id, time) == << "reports", NoSessionId, time >>

\* f"reports/{session_id}_report_{int(time.time())}.txt"
ReportKey(session_id, time) == << "reports", session_id, time >>

\* a put that writes nothing
PutObject_WritesNothing(bucket, key, body, content_type) == bucket

\* s3.put_object(Bucket, Key, Body, ContentType): a key holds one object
PutObject(bucket, key, body, content_type) ==
  { o \in bucket : o.key # key }
  \cup { [key |-> key, body |-> body, content_type |-> content_type] }

\* "SET workflow_stage = :stage, final_report = :report"
StoreReport(t, session_id, report_text) ==
  [t EXCEPT ![session_id] =
     [@ EXCEPT !.attrs = @ \cup {"session_id", "workflow_stage", "final_report"},
               !.workflow_stage = "report_generated",
               !.final_report = report_text]]

\* event['session_id'] or response["Item"] raises KeyError
ReportNoItem ==
  /\ report.pc = "get"
  /\ ~Present(GetItem(table, report.session_id))
  /\ report' = [IdleReport EXCEPT !.pc = "crashed"]
  /\ UNCHANGED << now, table, pending, reports >>
  /\ ReportUnchanged

\* the item is read and the prompt built (absent inputs default to empty)
ReportHasItem ==
  /\ report.pc = "get"
  /\ report.session_id # NoSessionId
  /\ Present(GetItem(table, report.session_id))

\* invoke_bedrock_model raises: nothing catches it
ReportModelFails ==
  /\ ReportHasItem
  /\ report' = [IdleReport EXCEPT !.pc = "crashed"]
  /\ UNCHANGED << now, table, pending, reports >>
  /\ ReportUnchanged

\* the model returns the report text
ReportModelAnswers(report_text) ==
  /\ ReportHasItem
  /\ report' = [report EXCEPT !.pc = "put", !.report_text = report_text]
  /\ UNCHANGED << now, table, pending, reports >>
  /\ ReportUnchanged

\* s3.put_object writes the report
ReportPut ==
  /\ report.pc = "put"
  /\ reports' = PutObject(reports, ReportKey(report.session_id, now),
                          report.report_text, "text/plain")
  /\ report' = [report EXCEPT !.pc = "update"]
  /\ UNCHANGED << now, table, pending >>
  /\ ReportUnchanged

\* s3.put_object raises: nothing catches it
ReportPutFails ==
  /\ report.pc = "put"
  /\ report' = [IdleReport EXCEPT !.pc = "crashed"]
  /\ UNCHANGED << now, table, pending, reports >>
  /\ ReportUnchanged

\* table.update_item: the report is stored; return 200
ReportStored ==
  /\ report.pc = "update"
  /\ table' = StoreReport(table, report.session_id, report.report_text)
  /\ report' = [IdleReport EXCEPT !.pc = "done", !.statusCode = 200]
  /\ UNCHANGED << now, pending, reports >>
  /\ ReportUnchanged

\* -------------------------------------------------------------- invocation
FunctionNames == {"analysis-agent", "research-agent", "report-generation-agent"}

\* a handler starts on the event {'session_id': session_id}
StartAnalysis(session_id) ==
  /\ Stopped(analysis)
  /\ analysis' = [IdleAnalysis EXCEPT !.pc = "get", !.session_id = session_id]
  /\ UNCHANGED << research, report >>

StartResearch(session_id) ==
  /\ Stopped(research)
  /\ research' = [IdleResearch EXCEPT !.pc = "get", !.session_id = session_id]
  /\ UNCHANGED << analysis, report >>

StartReport(session_id) ==
  /\ Stopped(report)
  /\ report' = [IdleReport EXCEPT !.pc = "get", !.session_id = session_id]
  /\ UNCHANGED << analysis, research >>

Start(function, session_id) ==
  IF function = "analysis-agent" THEN StartAnalysis(session_id)
  ELSE IF function = "research-agent" THEN StartResearch(session_id)
  ELSE StartReport(session_id)

\* Lambda delivers an asynchronous invocation
Deliver(function, session_id) ==
  /\ << function, session_id >> \in pending
  /\ pending' = pending \ { << function, session_id >> }
  /\ Start(function, session_id)
  /\ UNCHANGED << crawl_call, extraction_call, now, table, reports, budget, ingest >>

\* Lambda delivers an asynchronous invocation and will deliver it again
\* (asynchronous invocation is at-least-once, and a failed execution is retried)
DeliverAgain(function, session_id) ==
  /\ << function, session_id >> \in pending
  /\ budget > 0
  /\ budget' = budget - 1
  /\ Start(function, session_id)
  /\ UNCHANGED << crawl_call, extraction_call, now, table, pending, reports, ingest >>

\* a stage is invoked directly
Invoke(function, session_id) ==
  /\ budget > 0
  /\ budget' = budget - 1
  /\ Start(function, session_id)
  /\ UNCHANGED << crawl_call, extraction_call, now, table, pending, reports, ingest >>

\* ------------------------------------------------------------ specification
\* The pipeline under faults, repeated deliveries and direct invocations.
\* Its documents are a.txt, a.md (same base name and text), the empty
\* e.txt and p.png; the analysis model names at most one question; a question's
\* search or model call raises, or the model answers as asked.
PipelineRefs == { r \in ObjectRefs : r.key[1] \in {"a", "e", "p"} }

\* direct invocations name a.txt or e.txt
DirectRefs == { r \in PipelineRefs : r.key[2] = "txt" }

\* the session ids of these documents, and the two ids that have no record
PipelineSessionIds ==
  { s \in SessionIds : s[1] \in {"a", "e", "ghost"} } \cup {NoSessionId}

PipelineAnalysisResults == { r \in AnalysisResults : Len(r.research_questions) <= 1 }

PipelineOutcomes ==
  { o \in QuestionOutcomes : o.kind = "raised" \/ o.value.reliability_score = "High" }

Ingestion ==
  \/ IngestSkipUnsupported
  \/ IngestGetObjectFails
  \/ IngestExtractionFailed
  \/ IngestExtracted
  \/ IngestStored
  \/ IngestStoreFails
  \/ IngestTriggered
  \/ IngestTriggerFails
  \/ IngestErrorStateWritten
  \/ IngestErrorStateFails

Analysis(results) ==
  \/ AnalysisMissingSessionId
  \/ AnalysisSessionNotFound
  \/ AnalysisNoContent
  \/ AnalysisModelFails
  \/ AnalysisModelNotAnObject
  \/ \E r \in results : AnalysisModelAnswers(r)
  \/ AnalysisRecordsModelFailure
  \/ AnalysisStored
  \/ AnalysisTriggered
  \/ AnalysisTriggerFails
  \/ AnalysisRecordsTriggerFailure

Research(question_outcomes) ==
  \/ ResearchNoItem
  \/ ResearchNoQuestions
  \/ \E outcomes \in SeqsUpTo(question_outcomes, MaxQuestions) : ResearchLoop(outcomes)
  \/ ResearchStored
  \/ ResearchTriggered
  \/ ResearchTriggerFails

Report ==
  \/ ReportNoItem
  \/ ReportModelFails
  \/ \E t \in ReportTexts : ReportModelAnswers(t)
  \/ ReportPut
  \/ ReportPutFails
  \/ ReportStored

Next ==
  \/ Tick
  \/ \E ref \in PipelineRefs : S3Notification(<< S3Record(ref) >>)
  \/ \E ref \in DirectRefs : DirectInvocation(ref)
  \/ Ingestion
  \/ \E f \in FunctionNames, s \in SessionIds : Deliver(f, s)
  \/ \E f \in FunctionNames, s \in SessionIds : DeliverAgain(f, s)
  \/ \E f \in FunctionNames, s \in PipelineSessionIds : Invoke(f, s)
  \/ Analysis(PipelineAnalysisResults)
  \/ Research(PipelineOutcomes)
  \/ Report

Spec == Init /\ [][Next]_vars

\* The analysis handler alone, on the store ingestion can leave: empty, or
\* holding the record of a.txt or the record a direct invocation stores for
\* the empty e.txt; the model answers with any analysis result.
AnalysisRecords ==
  { [ref |-> r, session_id |-> GenerateSessionId(r.key, ExtractTextContent(GetObject(r), r.key).content, 0)] :
      r \in { o \in ObjectRefs : o.key \in {<<"a", "txt">>, <<"e", "txt">>} } }

AnalysisTables ==
  { [s \in SessionIds |-> NoItem] }
  \cup { PutItem([s \in SessionIds |-> NoItem], d.session_id,
                 DocumentItem(ExtractTextContent(GetObject(d.ref), d.ref.key), d.ref.bucket, d.ref.key)) :
           d \in AnalysisRecords }

AnalysisInit ==
  /\ now = 0
  /\ table \in AnalysisTables
  /\ pending = {}
  /\ reports = {}
  /\ budget = MaxEvents
  /\ ingest = IdleIngest
  /\ analysis = IdleAnalysis
  /\ research = IdleResearch
  /\ report = IdleReport
  /\ extraction_call = NoExtraction
  /\ crawl_call = NoCrawl

AnalysisNext ==
  \/ \E s \in { d.session_id : d \in AnalysisRecords } \cup {GhostId, NoSessionId} :
        Invoke("analysis-agent", s)
  \/ Analysis(AnalysisResults)

AnalysisSpec == AnalysisInit /\ [][AnalysisNext]_vars

\* The ingestion handler alone, on every kind of event: notification
\* batches of up to MaxBatch records (of a.txt, the empty e.txt, l.csv whose
\* text is longer than MAX_CONTENT_SIZE, m.txt whose text is as long, p.png, a
\* record of another event source, a record without bucket and key),
\* direct invocations, and events of neither shape.
IngestRefs ==
  { r \in ObjectRefs :
      r.key \in { <<"a", "txt">>, <<"a", "md">>, <<"e", "txt">>, <<"l", "csv">>,
                  <<"m", "txt">>, <<"p", "png">> } }

IngestRecords == { S3Record(r) : r \in IngestRefs } \cup {ForeignRecord, MalformedRecord}

Batches == SeqsUpTo(IngestRecords, MaxBatch)

IngestNext ==
  \/ \E records \in Batches : S3Notification(records)
  \/ \E ref \in IngestRefs : DirectInvocation(ref)
  \/ InvalidEvent
  \/ IngestSkipForeignRecord
  \/ IngestRecordMalformed
  \/ Ingestion

IngestSpec == Init /\ [][IngestNext]_vars

\* extract_text_content alone: called once with any of the files below,
\* under any combination of the two import flags.
LongText == [i \in 1..MinExtractedLength |-> 1]

ExtractFiles == SeqsUpTo({0, 1, 2, 9}, MaxFileLen) \cup {LongText}

ExtractFilenames ==
  { << "f", ext >> : ext \in {"pdf", "docx", "doc", "txt", "md", "csv", "json", "png"} }
  \cup { << "f" >> }

NoResult ==
  [content |-> <<>>, extraction_method |-> "unknown", warned |-> FALSE,
   branch |-> "", extraction_success |-> FALSE]

ExtractInit ==
  /\ now = 0
  /\ table = [s \in SessionIds |-> NoItem]
  /\ pending = {}
  /\ reports = {}
  /\ budget = MaxEvents
  /\ ingest = IdleIngest
  /\ analysis = IdleAnalysis
  /\ research = IdleResearch
  /\ report = IdleReport
  /\ crawl_call = NoCrawl
  /\ \E file_bytes \in ExtractFiles, filename \in ExtractFilenames,
        pdf_support \in BOOLEAN, docx_support \in BOOLEAN :
        extraction_call =
          [pc |-> "call", PDF_SUPPORT |-> pdf_support, DOCX_SUPPORT |-> docx_support,
           file_bytes |-> file_bytes, filename |-> filename, result |-> NoResult]

\* extract_text_content(file_bytes, filename) returns
ExtractTextContentReturns ==
  /\ extraction_call.pc = "call"
  /\ extraction_call' =
       [extraction_call EXCEPT
          !.pc = "returned",
          !.result = ExtractTextContentWith(extraction_call.file_bytes,
                                            extraction_call.filename,
                                            extraction_call.PDF_SUPPORT,
                                            extraction_call.DOCX_SUPPORT)]
  /\ UNCHANGED << crawl_call, now, table, pending, reports, budget, ingest, analysis, research, report >>

ExtractNext == ExtractTextContentReturns

ExtractSpec == ExtractInit /\ [][ExtractNext]_vars

\* ---------------------------------------------------- the tool crawl_website
\* The crawling service is reached over HTTP and answers as it likes: the
\* request raises (no connection), or a response comes back with a status
\* code and a body.
Bodies ==
  { JsonValue("object", {"success", "id"}, "job1", ""),
    JsonValue("object", {"success", "status", "data"}, "", ""),
    JsonValue("object", {"success", "error"}, "", "Unauthorized"),
    JsonValue("object", {"success"}, "", ""),
    JsonValue("array", {}, "", ""),
    JsonValue("invalid", {}, "", "") }

\* no connection (requests raises ConnectionError), or a response with
\* status 200 or 401
Responses ==
  { [raised |-> TRUE, status_code |-> 0, body |-> NoJson] }
  \cup { [raised |-> FALSE, status_code |-> sc, body |-> b] : sc \in {200, 401}, b \in Bodies }

\* the Authorization header of the submission is a plain string literal (the
\* f prefix is on the key); the one of the retrieval is interpolated
SubmissionAuthorization == "Bearer {FIRECRAWL_API_KEY}"

RetrievalAuthorization == "Bearer <FIRECRAWL_API_KEY>"

\* response.json() followed by .get(...): raises on a body that is not
\* JSON and on a JSON value that is not a mapping
JsonGetRaises(response) == response.body.kind # "object"

\* the message of the exception that requests, json() or get() raised
ExceptionText(response) ==
  IF response.raised THEN "ConnectionError"
  ELSE IF response.body.kind = "invalid" THEN "JSONDecodeError"
  ELSE "AttributeError"

\* {"error": str(e)}
ErrorMapping(e) == JsonValue("object", {"error"}, "", e)

\* response_json.get('id'), as formatted into the retrieval URL
JobId(response_json) == IF "id" \in response_json.keys THEN response_json.id ELSE "None"

\* requests.post(base_url, ...), response.json(), response_json.get('id')
CrawlSubmit ==
  /\ crawl_call.pc = "call"
  /\ \E response \in Responses :
       crawl_call' =
         IF response.raised \/ JsonGetRaises(response)
         THEN [crawl_call EXCEPT
                 !.pc = "returned", !.posts = @ + 1,
                 !.authorization = Append(@, SubmissionAuthorization),
                 !.submission = response,
                 !.result = ErrorMapping(ExceptionText(response))]
         ELSE [crawl_call EXCEPT
                 !.pc = "fetch", !.posts = @ + 1,
                 !.authorization = Append(@, SubmissionAuthorization),
                 !.submission = response,
                 !.job = JobId(response.body)]
  /\ UNCHANGED << extraction_call, now, table, pending, reports, budget,
                  ingest, analysis, research, report >>

\* requests.get(result_base_url, ...), final_respnse.json().get('status'),
\* return final_respnse.json()
CrawlRetrieve ==
  /\ crawl_call.pc = "fetch"
  /\ \E response \in Responses :
       crawl_call' =
         [crawl_call EXCEPT
            !.pc = "returned", !.gets = @ + 1,
            !.authorization = Append(@, RetrievalAuthorization),
            !.retrieval = response,
            !.result = IF response.raised \/ JsonGetRaises(response)
                       THEN ErrorMapping(ExceptionText(response))
                       ELSE response.body]
  /\ UNCHANGED << extraction_call, now, table, pending, reports, budget,
                  ingest, analysis, research, report >>

\* crawl_website alone: called once with any url and query
CrawlInit ==
  /\ now = 0
  /\ table = [s \in SessionIds |-> NoItem]
  /\ pending = {}
  /\ reports = {}
  /\ budget = MaxEvents
  /\ ingest = IdleIngest
  /\ analysis = IdleAnalysis
  /\ research = IdleResearch
  /\ report = IdleReport
  /\ extraction_call = NoExtraction
  /\ \E url \in {"https://example.com", "http://unreachable.invalid"},
        query \in {"", "pricing"} :
       crawl_call = [NoCrawl EXCEPT !.pc = "call", !.url = url, !.query = query]

CrawlSpec == CrawlInit /\ [][CrawlSubmit \/ CrawlRetrieve]_vars

\* The research handler alone, on a record the first two stages left: the
\* document a.txt, ingested at time 0, with no analysis yet or with any
\* analysis result; every outcome of a question can happen.
ResearchSessionId ==
  GenerateSessionId(<<"a", "txt">>, ExtractTextContent(<<1, 2>>, <<"a", "txt">>).content, 0)

ResearchItems ==
  LET item == DocumentItem(ExtractTextContent(<<1, 2>>, <<"a", "txt">>), "b1", <<"a", "txt">>)
      t == [s \in SessionIds |-> IF s = ResearchSessionId THEN item ELSE NoItem]
  IN {item} \cup { StoreAnalysis(t, ResearchSessionId, r)[ResearchSessionId] : r \in AnalysisResults }

ResearchInit ==
  /\ now = 0
  /\ \E item \in ResearchItems :
        table = [s \in SessionIds |-> IF s = ResearchSessionId THEN item ELSE NoItem]
  /\ pending = {}
  /\ reports = {}
  /\ budget = MaxEvents
  /\ ingest = IdleIngest
  /\ analysis = IdleAnalysis
  /\ research = IdleResearch
  /\ report = IdleReport
  /\ extraction_call = NoExtraction
  /\ crawl_call = NoCrawl

ResearchNext ==
  \/ \E s \in {ResearchSessionId, GhostId} : Invoke("research-agent", s)
  \/ Research(QuestionOutcomes)

ResearchSpec == ResearchInit /\ [][ResearchNext]_vars

\* The report handler alone, invoked (possibly again) for the session of
\* a.txt, whose record the research stage completed or, for an invocation
\* out of turn, ingestion just stored; and for a session without a record.
ReportTables ==
  LET t0 == [s \in SessionIds |-> IF s = ResearchSessionId
                                    THEN DocumentItem(ExtractTextContent(<<1, 2>>, <<"a", "txt">>),
                                                      "b1", <<"a", "txt">>)
                                    ELSE NoItem]
      t1 == StoreAnalysis(t0, ResearchSessionId,
                          [topics |-> "topics", has_questions |-> TRUE,
                           research_questions |-> << "q1" >>])
      t2 == StoreFindings(t1, ResearchSessionId, SetFinding(NoFindings, "q1", ErrorFinding))
  IN {t0, t2}

ReportInit ==
  /\ now = 0
  /\ table \in ReportTables
  /\ pending = {}
  /\ reports = {}
  /\ budget = MaxEvents
  /\ ingest = IdleIngest
  /\ analysis = IdleAnalysis
  /\ research = IdleResearch
  /\ report = IdleReport
  /\ extraction_call = NoExtraction
  /\ crawl_call = NoCrawl

ReportNext ==
  \/ Tick
  \/ \E s \in {ResearchSessionId, GhostId} : Invoke("report-generation-agent", s)
  \/ Report

ReportSpec == ReportInit /\ [][ReportNext]_vars

\* The pipeline under faults when every stage after the first runs only on
\* the invocation of its predecessor and Lambda delivers each accepted
\* invocation once: S3 notifies the ingestion handler of one or two different
\* documents of the pipeline, and nothing is invoked directly or twice.  An
\* invoked handler then always gets a session id whose record exists.
ChainNext ==
  \/ Tick
  \/ \E records \in SeqsUpTo({ S3Record(r) : r \in PipelineRefs }, MaxBatch) :
       /\ records # <<>>
       /\ Cardinality(Range(records)) = Len(records)
       /\ S3Notification(records)
  \/ Ingestion
  \/ \E f \in FunctionNames, s \in SessionIds : Deliver(f, s)
  \/ AnalysisModelFails
  \/ AnalysisModelNotAnObject
  \/ \E r \in PipelineAnalysisResults : AnalysisModelAnswers(r)
  \/ AnalysisRecordsModelFailure
  \/ AnalysisStored
  \/ AnalysisTriggered
  \/ AnalysisTriggerFails
  \/ AnalysisRecordsTriggerFailure
  \/ ResearchNoQuestions
  \/ \E outcomes \in SeqsUpTo(PipelineOutcomes, MaxQuestions) : ResearchLoop(outcomes)
  \/ ResearchStored
  \/ ResearchTriggered
  \/ ResearchTriggerFails
  \/ ReportModelFails
  \/ \E t \in ReportTexts : ReportModelAnswers(t)
  \/ ReportPut
  \/ ReportPutFails
  \/ ReportStored

ChainSpec == Init /\ [][ChainNext]_vars

\* The pipeline when every call succeeds and every invocation is delivered
\* once: a.txt is notified once, the analysis model returns an object with a
\* non-empty list of questions, every question is searched and answered with
\* JSON, and the report model returns a non-empty report.  A handler that
\* was started runs on, and Lambda delivers what it accepted.
LiveNotification ==
  /\ ingest.pc = "idle"
  /\ S3Notification(<< S3Record([bucket |-> "b1", key |-> <<"a", "txt">>]) >>)

LiveAnalysisResults == { r \in AnalysisResults : r.research_questions # <<>> }

LiveOutcomes == { o \in QuestionOutcomes : o.kind = "json" }

LiveStep ==
  \/ IngestExtracted
  \/ IngestStored
  \/ IngestTriggered
  \/ \E f \in FunctionNames, s \in SessionIds : Deliver(f, s)
  \/ \E r \in LiveAnalysisResults : AnalysisModelAnswers(r)
  \/ AnalysisStored
  \/ AnalysisTriggered
  \/ \E outcomes \in SeqsUpTo(LiveOutcomes, MaxQuestions) : ResearchLoop(outcomes)
  \/ ResearchStored
  \/ ResearchTriggered
  \/ ReportModelAnswers("report")
  \/ ReportPut
  \/ ReportStored

LiveNext == Tick \/ LiveNotification \/ LiveStep

LiveSpec == Init /\ [][LiveNext]_vars /\ WF_vars(LiveStep)

\* ------------------------------------------------------------------ claims
\* the position of a success stage in the pipeline's order, 0 for any other
StageRank(stage) ==
  IF \E i \in 1..Len(SuccessStages) : SuccessStages[i] = stage
    THEN CHOOSE i \in 1..Len(SuccessStages) : SuccessStages[i] = stage
    ELSE 0

\* a step of an execution that was running
AnalysisStep == ~Stopped(analysis) /\ analysis' # analysis
ResearchStep == ~Stopped(research) /\ research' # research
ReportStep == ~Stopped(report) /\ report' # report
IngestStep == ~Stopped(ingest) /\ ingest' # ingest

\* C1: workflow_stage never moves backward in the order document_processed <
\* analysis_complete < research_complete < report_generated, and once it is
\* an error stage no later write changes it.
C1_StageNeverRegresses ==
  [][\A s \in SessionIds :
       LET old == table[s].workflow_stage
           new == table'[s].workflow_stage
       IN /\ old \in ErrorStages => new = old
          /\ StageRank(old) > 0 /\ StageRank(new) > 0 => StageRank(new) >= StageRank(old)]_vars

\* C3: in both trigger modes, when the extracted content of the document is
\* empty the ingestion handler stores nothing and invokes nothing.
C3_EmptyContentStoresNothing ==
  [][IngestStep /\ CurrentExtraction.content = <<>>
       => table' = table /\ pending' = pending]_vars

\* C4: when the analysis model call fails or its text is no JSON, the handler
\* sets workflow_stage to "error" with an error_message, returns 500, stores
\* no analysis_result and does not invoke the research stage.
C4_AnalysisModelFailure ==
  [][AnalysisStep /\ analysis.pc = "model_failed"
       => LET s == analysis.session_id
          IN /\ table'[s].workflow_stage = "error"
             /\ Has(table'[s], "error_message")
             /\ Has(table'[s], "analysis_result") = Has(table[s], "analysis_result")
             /\ table'[s].analysis_result = table[s].analysis_result
             /\ pending' = pending
             /\ analysis'.pc = "done"
             /\ analysis'.statusCode = 500]_vars

C4_Witness ==
  /\ analysis.pc = "done"
  /\ analysis.statusCode = 500
  /\ \E s \in SessionIds :
        table[s].workflow_stage = "error" /\ ~Has(table[s], "analysis_result")

\* C5 as claimed: when the invocation of the research stage fails after the
\* analysis was stored, workflow_stage remains "analysis_complete" and the
\* handler returns 200.
C5_TriggerFailureKeepsStage ==
  [][AnalysisStep /\ analysis.pc = "trigger_failed"
       => /\ table'[analysis.session_id].workflow_stage = "analysis_complete"
          /\ analysis'.statusCode = 200]_vars

\* C5 as amended: when the invocation of the research stage fails after the
\* analysis was stored, the failure is caught and recorded on the record:
\* workflow_stage becomes "error" with an error_message, the stored
\* analysis_result is left as it is, and the handler returns 200.
C5_TriggerFailureRecorded ==
  [][AnalysisStep /\ analysis.pc = "trigger_failed"
       => LET s == analysis.session_id
          IN /\ table'[s].workflow_stage = "error"
             /\ Has(table'[s], "error_message")
             /\ Has(table'[s], "analysis_result") = Has(table[s], "analysis_result")
             /\ table'[s].analysis_result = table[s].analysis_result
             /\ pending' = pending
             /\ analysis'.pc = "done"
             /\ analysis'.statusCode = 200]_vars

C5_Witness ==
  /\ analysis.pc = "done"
  /\ analysis.statusCode = 200
  /\ pending = {}
  /\ \E s \in SessionIds :
        table[s].workflow_stage = "error" /\ Has(table[s], "analysis_result")

\* C8: when the analysis handler is invoked with a session id that has no
\* record, it returns 404, the table is unchanged, no model call is made
\* (the handler stops at once) and the research stage is not invoked.
C8_SessionNotFound ==
  [][(/\ AnalysisStep
      /\ analysis.pc = "get"
      /\ analysis.session_id # NoSessionId
      /\ ~Present(GetItem(table, analysis.session_id)))
       => (/\ analysis'.pc = "done"
           /\ analysis'.statusCode = 404
           /\ table' = table
           /\ pending' = pending)]_vars

C8_Witness ==
  /\ analysis.pc = "done"
  /\ analysis.statusCode = 404
  /\ \A s \in SessionIds : ~Present(table[s])

\* C9: when the analysis handler is invoked for an existing session whose
\* document_content is missing or empty, it returns 400, leaves the record
\* unchanged and does not invoke the research stage.
C9_NoDocumentContent ==
  [][(/\ AnalysisStep
      /\ analysis.pc = "get"
      /\ Present(GetItem(table, analysis.session_id))
      /\ GetItem(table, analysis.session_id).document_content = <<>>)
       => (/\ analysis'.pc = "done"
           /\ analysis'.statusCode = 400
           /\ table' = table
           /\ pending' = pending)]_vars

C9_Witness ==
  /\ analysis.pc = "done"
  /\ analysis.statusCode = 400
  /\ analysis.body = "No document content found"
  /\ \E s \in SessionIds :
        /\ Present(table[s])
        /\ table[s].document_content = <<>>
        /\ table[s].workflow_stage = "document_processed"

\* C10: when a stage handler that passed its input guards stops (it returns,
\* or a failed call escapes), the record's workflow_stage is that stage's
\* success tag or an error tag.
C10_StopsAtSuccessOrError ==
  [][/\ (AnalysisStep /\ analysis'.pc = "done" /\ (analysis.pc = "get" => AnalysisHasContent))
        => (table'[analysis.session_id].workflow_stage
              \in {"analysis_complete"} \cup ErrorStages)
     /\ (ResearchStep /\ Stopped(research') /\ research.pc # "get")
        => (table'[research.session_id].workflow_stage
              \in {"research_complete"} \cup ErrorStages)
     /\ (ReportStep /\ Stopped(report') /\ (report.pc = "get" => ReportHasItem))
        => (table'[report.session_id].workflow_stage
              \in {"report_generated"} \cup ErrorStages)]_vars

\* C2: when every call succeeds and every invocation is delivered, a
\* notification for a .txt object with text leads to a record with
\* workflow_stage = "report_generated", a non-empty final_report and a
\* research_findings mapping whose keys are the stored research_questions.
ReportGenerated(item) ==
  /\ item.workflow_stage = "report_generated"
  /\ Has(item, "final_report")
  /\ item.final_report # ""
  /\ Has(item, "research_findings")
  /\ Has(item, "analysis_result")
  /\ DOMAIN item.research_findings = Range(item.analysis_result.research_questions)

C2_NotificationLeadsToReport ==
  (ingest.pc = "fetch")
    ~> (\E s \in SessionIds : table[s].s3_key = <<"a", "txt">> /\ ReportGenerated(table[s]))

C2_Witness ==
  \E s \in SessionIds :
    /\ table[s].s3_key = <<"a", "txt">>
    /\ ReportGenerated(table[s])
    /\ Cardinality(DOMAIN table[s].research_findings) = 2

\* C6: for a non-empty list of questions, whichever of them fail, the
\* research handler stores as many findings as the list has questions, one
\* for each, the finding of every question whose search or model call
\* failed has reliability_score "Low" and no sources or key findings, the
\* record becomes research_complete, and the handler goes on to invoke the
\* report stage.
LowFinding(finding) ==
  /\ finding.reliability_score = "Low"
  /\ finding.sources = "none"
  /\ finding.key_findings = "none"

C6_OneFindingPerQuestion ==
  [][ResearchStep /\ research.pc = "store"
       => LET item == table'[research.session_id]
              questions == research.research_questions
          IN /\ questions # <<>>
             /\ Has(item, "research_findings")
             /\ DOMAIN item.research_findings = Range(questions)
             /\ Cardinality(DOMAIN item.research_findings) = Len(questions)
             /\ \A i \in research.failed : LowFinding(item.research_findings[questions[i]])
             /\ item.workflow_stage = "research_complete"
             /\ research'.pc = "trigger"]_vars

\* C6 as the code has it: the findings are a mapping keyed by the question's
\* text, so there is one finding for each distinct question of the list, and
\* it is the one of the question's last turn: it is "Low" with no sources or
\* key findings when that turn failed.
LastTurn(questions, i) ==
  \A k \in (i + 1)..Len(questions) : questions[k] # questions[i]

C6_OneFindingPerDistinctQuestion ==
  [][ResearchStep /\ research.pc = "store"
       => LET item == table'[research.session_id]
              questions == research.research_questions
          IN /\ questions # <<>>
             /\ Has(item, "research_findings")
             /\ DOMAIN item.research_findings = Range(questions)
             /\ \A i \in research.failed :
                   LastTurn(questions, i) => LowFinding(item.research_findings[questions[i]])
             /\ item.workflow_stage = "research_complete"
             /\ research'.pc = "trigger"]_vars

C6_Witness ==
  /\ research.pc = "trigger"
  /\ research.research_questions = <<"q1", "q2">>
  /\ research.failed = {2}
  /\ table[research.session_id].workflow_stage = "research_complete"
  /\ DOMAIN table[research.session_id].research_findings = {"q1", "q2"}
  /\ table[research.session_id].research_findings["q1"].reliability_score = "High"
  /\ LowFinding(table[research.session_id].research_findings["q2"])

\* C7: when the research handler is invoked for a session whose
\* analysis_result has no research questions (missing, or an empty list), it
\* returns 400, writes nothing and does not invoke the report stage.
C7_NoResearchQuestions ==
  [][(/\ ResearchStep
      /\ research.pc = "get"
      /\ Present(GetItem(table, research.session_id))
      /\ (\/ ~Has(GetItem(table, research.session_id), "analysis_result")
          \/ ~GetItem(table, research.session_id).analysis_result.has_questions
          \/ GetItem(table, research.session_id).analysis_result.research_questions = <<>>))
       => (/\ research'.pc = "done"
           /\ research'.statusCode = 400
           /\ table' = table
           /\ reports' = reports
           /\ pending' = pending)]_vars

C7_Witness ==
  /\ research.pc = "done"
  /\ research.statusCode = 400
  /\ table[ResearchSessionId].workflow_stage = "analysis_complete"
  /\ table[ResearchSessionId].analysis_result.has_questions
  /\ pending = {}

\* C19: whenever a document fails to yield usable text (.doc format, a
\* missing PDF or DOCX library, invalid JSON, a parser that raises on a
\* corrupt PDF or DOCX, an unexpected exception), the content returned by
\* extract_text_content begins with 'ERROR:' and extraction_success is
\* false, or the content is the short-content warning.
FailedBranches ==
  {"doc_format", "library_missing", "invalid_json", "parser_raised", "exception"}

C19_FailuresAreMarked ==
  (extraction_call.pc = "returned" /\ extraction_call.result.branch \in FailedBranches)
    => \/ /\ StartsWithError(extraction_call.result.content)
          /\ ~extraction_call.result.extraction_success
       \/ extraction_call.result.content \in {PdfShortWarning, DocxShortWarning}

\* C20: for a .txt, .md or .csv file whose bytes are valid UTF-8, of any
\* length, extract_text_content returns extraction_success = true,
\* extraction_method = 'text_decode_utf-8' and the input text as content.
TextLikeUtf8Call ==
  /\ extraction_call.pc = "returned"
  /\ Len(extraction_call.filename) > 1
  /\ Last(extraction_call.filename) \in {"txt", "md", "csv"}
  /\ 9 \notin Range(extraction_call.file_bytes)

C20_TextLikeAlwaysSucceeds ==
  TextLikeUtf8Call
    => /\ extraction_call.result.extraction_success
       /\ extraction_call.result.extraction_method = "text_decode_utf-8"
       /\ extraction_call.result.content = extraction_call.file_bytes

\* C20 as the code has it: the method and the content are as stated, and
\* extraction_success is true exactly when the text is not empty and does
\* not begin with 'ERROR:'.
C20_TextLikeDecodes ==
  TextLikeUtf8Call
    => /\ extraction_call.result.extraction_method = "text_decode_utf-8"
       /\ extraction_call.result.content = extraction_call.file_bytes
       /\ extraction_call.result.extraction_success
            <=> (/\ extraction_call.file_bytes # <<>>
                 /\ extraction_call.file_bytes[1] # 0)

C20_Witness ==
  /\ TextLikeUtf8Call
  /\ extraction_call.file_bytes = << 1, 2 >>
  /\ extraction_call.result.extraction_success
  /\ extraction_call.result.content = << 1, 2 >>

\* C12: when ingestion has stored a record and its invocation of the
\* analysis stage fails, the failure is caught; the error update sets the
\* record's workflow_stage to "error_document_processing" with an
\* error_message and leaves its other fields as they were; and the handler
\* goes on: to the next record of the batch if there is one, and otherwise
\* to its 200 result.
ErrorMarked(item, stage) ==
  [item EXCEPT !.attrs = @ \cup {"session_id", "workflow_stage", "error_message"},
               !.workflow_stage = stage,
               !.error_message = "error"]

C13_BatchGoesOn ==
  [][(IngestStep /\ ingest.mode = "s3" /\ ingest.idx < Len(ingest.records))
       => ~Stopped(ingest')]_vars

\* C14: an ingestion event that is neither one or more S3 notifications nor
\* a direct payload with bucket and key (a Records list with no S3
\* notification included) returns 400, stores nothing and invokes nothing.
NoS3Record(records) == \A i \in 1..Len(records) : ~IsS3Record(records[i])

C14_OtherEventsReturn400 ==
  [][(\/ /\ Stopped(ingest)
         /\ budget' < budget
         /\ ingest'.pc = "done"
      \/ /\ IngestStep
         /\ ingest.mode = "s3"
         /\ NoS3Record(ingest.records)
         /\ ingest'.pc = "done")
       => (/\ ingest'.statusCode = 400
           /\ table' = table
           /\ pending' = pending)]_vars

\* C11: when the research or the report handler is invoked for a session id
\* that has no record (or without a session_id), it ends by returning a
\* missing-data error result, not by an uncaught exception, and writes
\* nothing to the table or to the report bucket.
C11_MissingRecordIsAnErrorResult ==
  [][/\ (ResearchStep /\ research.pc = "get"
           /\ ~Present(GetItem(table, research.session_id)))
          => (/\ research'.pc = "done"
              /\ research'.statusCode \in {400, 404}
              /\ table' = table
              /\ reports' = reports)
     /\ (ReportStep /\ report.pc = "get"
           /\ ~Present(GetItem(table, report.session_id)))
          => (/\ report'.pc = "done"
              /\ report'.statusCode \in {400, 404}
              /\ table' = table
              /\ reports' = reports)]_vars

\* C15: when the research handler's invocation of the report stage fails,
\* the handler returns 500, an error annotation is recorded on the record,
\* and the record keeps workflow_stage = "research_complete" and its
\* research_findings.
C15_ReportTriggerFailureIsRecorded ==
  [][(ResearchStep /\ research.pc = "trigger" /\ research'.statusCode # 200)
       => LET before == table[research.session_id]
              after == table'[research.session_id]
          IN /\ research'.pc = "done"
             /\ research'.statusCode = 500
             /\ Has(after, "error_message")
             /\ after.workflow_stage = "research_complete"
             /\ Has(after, "research_findings")
             /\ after.research_findings = before.research_findings]_vars

\* C16: once document_content, analysis_result, research_findings or
\* final_report is present on a record, it is present in every later state
\* of that record.
AccumulatedFields ==
  {"document_content", "analysis_result", "research_findings", "final_report"}

C16_FieldsAccumulate ==
  [][\A s \in SessionIds : \A field \in AccumulatedFields :
        Has(table[s], field) => Has(table'[s], field)]_vars

\* C17: on every record, error_message is present only if workflow_stage is
\* "error" or "error_document_processing".
C17_ErrorMessageOnlyInErrorStage ==
  \A s \in SessionIds :
    Has(table[s], "error_message") => table[s].workflow_stage \in ErrorStages

\* C18: on every record, each value of research_findings has the fields
\* summary, reliability_score, sources and key_findings, and its
\* reliability_score is High, Medium or Low.
FindingObject(finding) ==
  /\ finding.summary # Absent
  /\ finding.sources # Absent
  /\ finding.key_findings # Absent
  /\ finding.reliability_score \in {"High", "Medium", "Low"}

C18_FindingsAreFindingObjects ==
  \A s \in SessionIds :
    Has(table[s], "research_findings")
      => \A q \in DOMAIN table[s].research_findings :
            FindingObject(table[s].research_findings[q])

\* C21: for a .doc file, whatever its bytes, extract_text_content returns
\* the content "ERROR: .doc files not supported, please convert to .docx",
\* extraction_success = false and a warning, and attempts no extractor
\* (extraction_method stays 'unknown').
C21_DocIsNotSupported ==
  (/\ extraction_call.pc = "returned"
   /\ Len(extraction_call.filename) > 1
   /\ Last(extraction_call.filename) = "doc")
    => /\ extraction_call.result.content = ERROR_PREFIX \o << 13 >>
       /\ StartsWithError(extraction_call.result.content)
       /\ ~extraction_call.result.extraction_success
       /\ extraction_call.result.warned
       /\ extraction_call.result.extraction_method = "unknown"

C21_Witness ==
  /\ extraction_call.pc = "returned"
  /\ extraction_call.filename = << "f", "doc" >>
  /\ extraction_call.file_bytes = << 1, 9 >>
  /\ extraction_call.result.content = DocNotSupported
  /\ ~extraction_call.result.extraction_success

\* C22: a record stored by ingestion for extracted content of length L, with
\* M = MAX_CONTENT_SIZE, has as document_content the first min(L, M)
\* characters of the content, full_content_length = L, content_truncated
\* true exactly when L > M, and full_content_s3_location exactly when
\* content_truncated is true.
MinOf(a, b) == IF a < b THEN a ELSE b

C22_ContentIsTruncatedToMax ==
  [][(IngestStep /\ ingest.pc = "store" /\ table' # table)
       => LET content == CurrentExtraction.content
              L == Len(content)
              item == table'[ingest.session_id]
          IN /\ Has(item, "document_content")
             /\ item.document_content = SubSeq(content, 1, MinOf(L, MAX_CONTENT_SIZE))
             /\ item.full_content_length = L
             /\ item.content_truncated <=> (L > MAX_CONTENT_SIZE)
             /\ Has(item, "full_content_s3_location") <=> item.content_truncated]_vars

C22_Witness ==
  \E s \in SessionIds :
    /\ table[s].s3_key = << "l", "csv" >>
    /\ table[s].document_content = << 1, 1, 1 >>
    /\ table[s].full_content_length = 4
    /\ table[s].content_truncated
    /\ Has(table[s], "full_content_s3_location")

\* C23: a direct (bucket and key) invocation of ingestion that completes
\* without an exception returns the result payload with session_id,
\* extraction_success, content_length and warnings, also when storing the
\* record fails.
C23_DirectReturnsPayload ==
  [][(/\ IngestStep
      /\ ingest.mode = "direct"
      /\ ingest'.pc = "done"
      /\ ingest'.statusCode # 500)
       => ingest'.payload]_vars

\* C24: a report execution that completes has written exactly one object,
\* under the key reports/{session_id}_report_{integer}.txt of its session id
\* and with content type text/plain, and invokes no further stage: the
\* bucket changes only in the step from "put" to "update", which puts that
\* one object, and the execution completes only after that step.
C24_OneReportObject ==
  [][ReportStep
       => /\ pending' = pending
          /\ (report.pc # "put") => (reports' = reports)
          /\ (report.pc = "put" /\ report'.pc = "update")
               => (\E o \in reports' :
                     /\ o.key = << "reports", report.session_id, now >>
                     /\ o.content_type = "text/plain"
                     /\ o.body = report.report_text
                     /\ reports' \ {o} = { old \in reports : old.key # o.key })
          /\ (report'.pc = "done") => (report.pc = "update" /\ report'.statusCode = 200)]_vars

C24_Witness ==
  /\ report.pc = "done"
  /\ report.statusCode = 200
  /\ pending = {}
  /\ table[ResearchSessionId].workflow_stage = "report_generated"
  /\ \E o \in reports :
       /\ reports = {o}
       /\ o.key = << "reports", ResearchSessionId, 0 >>
       /\ o.content_type = "text/plain"

\* C28: whenever a record has workflow_stage = "report_generated", the
\* report bucket holds an object for that session whose content equals the
\* record's final_report.
ReportObjectsOf(session_id) == { o \in reports : o.key[2] = session_id }

RequestFailed(response) ==
  \/ response.raised
  \/ response.status_code \notin 200..299
  \/ response.body.kind # "object"

CrawlFailed ==
  \/ RequestFailed(crawl_call.submission)
  \/ crawl_call.gets > 0 /\ RequestFailed(crawl_call.retrieval)

C25_CrawlFailureYieldsError ==
  (crawl_call.pc = "returned")
    => /\ crawl_call.result.kind = "object"
       /\ CrawlFailed => ("error" \in crawl_call.result.keys)
       /\ (~CrawlFailed)
            => /\ crawl_call.result = crawl_call.retrieval.body
               /\ crawl_call.posts = 1
               /\ crawl_call.gets = 1

\* C29: two different source objects never receive the same session id:
\* a put_item of the ingestion stage never replaces the record of another
\* object (another bucket or key).
C29_NoRecordOfAnotherObjectOverwritten ==
  [][ (ingest.pc = "store" /\ table' # table)
        => LET old == GetItem(table, ingest.session_id)
               new == GetItem(table', ingest.session_id)
           IN Present(old)
                => << old.s3_bucket, old.s3_key >> = << new.s3_bucket, new.s3_key >> ]_vars

\* C27: when stages run only on their predecessor's invocation and each
\* invocation is delivered once, no success stage is skipped: a record
\* becomes analysis_complete only from document_processed, research_complete
\* only from analysis_complete, report_generated only from research_complete.
StageOf(t, session_id) == GetItem(t, session_id).workflow_stage

C27_NoSuccessStageSkipped ==
  [][ \A s \in SessionIds :
        (StageOf(table', s) # StageOf(table, s))
          => /\ (StageOf(table', s) = "analysis_complete")
                  => (StageOf(table, s) = "document_processed")
             /\ (StageOf(table', s) = "research_complete")
                  => (StageOf(table, s) = "analysis_complete")
             /\ (StageOf(table', s) = "report_generated")
                  => (StageOf(table, s) = "research_complete") ]_vars

\* C26: the record of a session is owned by one stage at a time and passes
\* on at the asynchronous invocation.  A stage writes to a record only
\* before it invoked the next stage for it: never while that invocation is
\* pending or the next stage runs on the record.  And the invoked stage, when
\* it reads the record, finds the stage tag and the data of its
\* predecessor.
HandedOver(function, exec, session_id) ==
  \/ << function, session_id >> \in pending
  \/ ~Stopped(exec) /\ exec.session_id = session_id

Writes(session_id) == GetItem(table', session_id) # GetItem(table, session_id)

C26_RecordOwnedByOneStage ==
  [][ /\ \A s \in SessionIds :
           /\ (IngestStep /\ Writes(s)) => ~HandedOver("analysis-agent", analysis, s)
           /\ (AnalysisStep /\ Writes(s)) => ~HandedOver("research-agent", research, s)
           /\ (ResearchStep /\ Writes(s)) => ~HandedOver("report-generation-agent", report, s)
      /\ (AnalysisStep /\ analysis.pc = "get")
           => /\ StageOf(table, analysis.session_id) = "document_processed"
              /\ Has(GetItem(table, analysis.session_id), "document_content")
      /\ (ResearchStep /\ research.pc = "get")
           => /\ StageOf(table, research.session_id) = "analysis_complete"
              /\ Has(GetItem(table, research.session_id), "analysis_result")
      /\ (ReportStep /\ report.pc = "get")
           => /\ StageOf(table, report.session_id) = "research_complete"
              /\ Has(GetItem(table, report.session_id), "research_findings") ]_vars

====
